---- MODULE Spec2Model ----
(***************************************************************************)
(* Binding generator of packages/wit_component_example (types.rs): the     *)
(* mapping of a parsed WIT package onto Dart names, definitions and        *)
(* interface classes.                                                      *)
(*                                                                         *)
(* Text is a sequence of one-character strings, so that formatting, case   *)
(* conversion and joining are computed character by character.  An         *)
(* Option<T> of the source is a sequence of length 0 (None) or 1 (Some).   *)
(* The type arena is indexed from 1.                                       *)
(*                                                                         *)
(* The last part is the run-time configuration of packages/wasm_run/native *)
(* (config.rs): the WASI context and the feature set built from it.        *)
(***************************************************************************)
EXTENDS Integers, Sequences, FiniteSets, TLC

VARIABLES pkg, s, op, arg, ret, cur, hops, phase, log

vars == <<pkg, s, op, arg, ret, cur, hops, phase, log>>

----------------------------------------------------------------------------
(* Bounds of the model *)

\* longest tuple, parameter list and result list
MaxLen == 2
\* calls made in one session on the buffers of one caller
MaxCalls == 2
\* entries of the type arena of a package
NumTypes == 2
\* alias hops the step-wise resolution is followed for
HopCap == 4

----------------------------------------------------------------------------
(* Text helpers *)

None == <<>>
Some(x) == <<x>>
IsSome(o) == Len(o) = 1
Unwrap(o) == o[1]

RECURSIVE Join(_, _)
\* Vec<String>::join(sep)
Join(parts, sep) ==
    IF Len(parts) = 0 THEN <<>>
    ELSE IF Len(parts) = 1 THEN parts[1]
    ELSE parts[1] \o sep \o Join(Tail(parts), sep)

IsPrefix(a, b) == Len(a) <= Len(b) /\ SubSeq(b, 1, Len(a)) = a

\* sub occurs in text at position i
OccursAt(sub, text, i) ==
    i + Len(sub) - 1 <= Len(text) /\ SubSeq(text, i, i + Len(sub) - 1) = sub

Occurrences(sub, text) == {i \in 1..Len(text) : OccursAt(sub, text, i)}

Contains(sub, text) == sub = <<>> \/ Occurrences(sub, text) # {}

First(sub, text) == CHOOSE i \in Occurrences(sub, text) : \A j \in Occurrences(sub, text) : i <= j
Last(sub, text) == CHOOSE i \in Occurrences(sub, text) : \A j \in Occurrences(sub, text) : i >= j
BeforeFirst(sub, text) == SubSeq(text, 1, First(sub, text) - 1)
AfterFirst(sub, text) == SubSeq(text, First(sub, text) + Len(sub), Len(text))
AfterLast(sub, text) == SubSeq(text, Last(sub, text) + Len(sub), Len(text))

RECURSIVE SplitOn(_, _)
\* the entries of a list joined by sep (none for the empty text)
SplitOn(text, sep) ==
    IF text = <<>> THEN <<>>
    ELSE IF ~Contains(sep, text) THEN <<text>>
    ELSE <<BeforeFirst(sep, text)>> \o SplitOn(AfterFirst(sep, text), sep)

----------------------------------------------------------------------------
(* heck::AsPascalCase / heck::AsLowerCamelCase *)

Lowers == <<"a","b","c","d","e","f","g","h","i","j","k","l","m","n","o","p","q","r","s","t","u","v","w","x","y","z">>
Uppers == <<"A","B","C","D","E","F","G","H","I","J","K","L","M","N","O","P","Q","R","S","T","U","V","W","X","Y","Z">>
Digits == <<"0","1","2","3","4","5","6","7","8","9">>

Range(f) == {f[i] : i \in DOMAIN f}
IsLower(c) == c \in Range(Lowers)
IsUpper(c) == c \in Range(Uppers)
IsAlphanumeric(c) == c \in Range(Lowers) \cup Range(Uppers) \cup Range(Digits)

IndexIn(c, xs) == CHOOSE i \in 1..Len(xs) : xs[i] = c
ToUpper(c) == IF IsLower(c) THEN Uppers[IndexIn(c, Lowers)] ELSE c
ToLower(c) == IF IsUpper(c) THEN Lowers[IndexIn(c, Uppers)] ELSE c

RECURSIVE SplitNonAlnum(_, _)
\* str::split(|c| !c.is_alphanumeric()): the runs between separators
SplitNonAlnum(text, acc) ==
    IF Len(text) = 0 THEN <<acc>>
    ELSE IF IsAlphanumeric(Head(text)) THEN SplitNonAlnum(Tail(text), Append(acc, Head(text)))
    ELSE <<acc>> \o SplitNonAlnum(Tail(text), <<>>)

RECURSIVE SplitRun(_, _, _, _)
\* the words of one alphanumeric run: a boundary after a lowercase letter
\* followed by an uppercase one, and before the last of a run of uppercase
\* letters followed by a lowercase one
SplitRun(w, i, init, mode) ==
    IF i > Len(w) THEN <<>>
    ELSE IF i = Len(w) THEN <<SubSeq(w, init, Len(w))>>
    ELSE
      LET c == w[i]
          next == w[i + 1]
          next_mode == IF IsLower(c) THEN "Lowercase"
                       ELSE IF IsUpper(c) THEN "Uppercase" ELSE mode
      IN  IF next_mode = "Lowercase" /\ IsUpper(next)
            THEN <<SubSeq(w, init, i)>> \o SplitRun(w, i + 1, i + 1, "Boundary")
          ELSE IF mode = "Uppercase" /\ IsUpper(c) /\ IsLower(next)
            THEN <<SubSeq(w, init, i - 1)>> \o SplitRun(w, i + 1, i, "Boundary")
          ELSE SplitRun(w, i + 1, init, next_mode)

RECURSIVE Flatten(_)
Flatten(xss) == IF Len(xss) = 0 THEN <<>> ELSE Head(xss) \o Flatten(Tail(xss))

HeckWords(text) ==
    LET runs == SplitNonAlnum(text, <<>>)
    IN  Flatten([i \in 1..Len(runs) |-> SplitRun(runs[i], 1, 1, "Boundary")])

Lowercase(w) == [i \in 1..Len(w) |-> ToLower(w[i])]
Capitalize(w) == [i \in 1..Len(w) |-> IF i = 1 THEN ToUpper(w[i]) ELSE ToLower(w[i])]

AsPascalCase(text) ==
    LET ws == HeckWords(text)
    IN  Flatten([i \in 1..Len(ws) |-> Capitalize(ws[i])])

AsLowerCamelCase(text) ==
    LET ws == HeckWords(text)
    IN  Flatten([i \in 1..Len(ws) |-> IF i = 1 THEN Lowercase(ws[i]) ELSE Capitalize(ws[i])])

----------------------------------------------------------------------------
(* wit_parser::Type *)

ScalarKinds == {"Bool", "String", "Char", "Float32", "Float64",
                "S8", "S16", "S32", "S64", "U8", "U16", "U32", "U64"}

Scalar(k) == [tag |-> k, id |-> 0]
Id(i) == [tag |-> "Id", id |-> i]

Scalars == {Scalar(k) : k \in ScalarKinds}

----------------------------------------------------------------------------
(* Outcome of a call: a returned String, a panic (Option::unwrap on None,  *)
(* todo!, unimplemented!), or recursion that never returns                 *)

Ok(t) == [st |-> "ok", why |-> "", v |-> t]
Panic(why) == [st |-> "panic", why |-> why, v |-> <<>>]
Diverge == [st |-> "diverge", why |-> "", v |-> <<>>]

IsOk(r) == r.st = "ok"

\* the first outcome, in evaluation order, that is not a value
FirstFailure(rs) == rs[CHOOSE i \in 1..Len(rs) : ~IsOk(rs[i]) /\ \A j \in 1..(i - 1) : IsOk(rs[j])]
AllOk(rs) == \A i \in 1..Len(rs) : IsOk(rs[i])
Values(rs) == [i \in 1..Len(rs) |-> rs[i].v]

----------------------------------------------------------------------------
(* crate::generate::add_docs: the documentation of a node as a comment     *)
(* block appended to the buffer; nothing when the node has none            *)

add_docs(buf, docs) ==
    IF IsSome(docs) THEN buf \o <<"/","/","/"," ">> \o Unwrap(docs) \o <<"\n">> ELSE buf

----------------------------------------------------------------------------
(* Parsed: the type arena lookups *)

\* UnresolvedPackage.types.get(id)
TypesGet(id) == IF id \in DOMAIN pkg.types THEN Some(pkg.types[id]) ELSE None

\* nested resolutions of type ids after which a call has re-entered an
\* arena entry it is still resolving, and so never returns
Fuel == Len(pkg.types) + 1

type_to_ffi_scalar(ty) ==
    CASE ty.tag = "Bool" -> Ok(<<"B","o","o","l">>)
      [] ty.tag = "String" -> Ok(<<"S","t","r","i","n","g">>)
      [] ty.tag = "Char" -> Ok(<<"U","i","n","t","3","2">>)
      [] ty.tag = "Float32" -> Ok(<<"F","l","o","a","t">>)
      [] ty.tag = "Float64" -> Ok(<<"D","o","u","b","l","e">>)
      [] ty.tag = "S8" -> Ok(<<"I","n","t","8">>)
      [] ty.tag = "S16" -> Ok(<<"I","n","t","1","6">>)
      [] ty.tag = "S32" -> Ok(<<"I","n","t","3","2">>)
      [] ty.tag = "S64" -> Ok(<<"I","n","t","6","4">>)
      [] ty.tag = "U8" -> Ok(<<"U","i","n","t","8">>)
      [] ty.tag = "U16" -> Ok(<<"U","i","n","t","1","6">>)
      [] ty.tag = "U32" -> Ok(<<"U","i","n","t","3","2">>)
      [] ty.tag = "U64" -> Ok(<<"U","i","n","t","6","4">>)

\* the Type::Id arm: the name of the referenced definition
type_to_ffi_id(ty) ==
    LET got == TypesGet(ty.id)
    IN  IF ~IsSome(got) THEN Panic("dangling")
        ELSE IF ~IsSome(Unwrap(got).name) THEN Panic("noname")
        ELSE Ok(Unwrap(Unwrap(got).name))

\* type_to_ffi with the Char arm taken for a byte
type_to_ffi_char_as_byte(ty) ==
    IF ty.tag = "Id" THEN type_to_ffi_id(ty)
    ELSE IF ty.tag = "Char" THEN Ok(<<"U","i","n","t","8">>)
    ELSE type_to_ffi_scalar(ty)

type_to_ffi(ty) ==
    IF ty.tag = "Id" THEN type_to_ffi_id(ty) ELSE type_to_ffi_scalar(ty)

type_to_str_scalar(ty) ==
    CASE ty.tag = "Bool" -> Ok(<<"b","o","o","l">>)
      [] ty.tag = "String" -> Ok(<<"S","t","r","i","n","g">>)
      [] ty.tag = "Char" -> Ok(<<"i","n","t"," ","/","*"," ","C","h","a","r"," ","*","/">>)
      [] ty.tag = "Float32" -> Ok(<<"d","o","u","b","l","e"," ","/","*"," ","F","l","o","a","t","3","2"," ","*","/">>)
      [] ty.tag = "Float64" -> Ok(<<"d","o","u","b","l","e"," ","/","*"," ","F","l","o","a","t","6","4"," ","*","/">>)
      [] ty.tag = "S8" -> Ok(<<"i","n","t"," ","/","*"," ","S","8"," ","*","/">>)
      [] ty.tag = "S16" -> Ok(<<"i","n","t"," ","/","*"," ","S","1","6"," ","*","/">>)
      [] ty.tag = "S32" -> Ok(<<"i","n","t"," ","/","*"," ","S","3","2"," ","*","/">>)
      [] ty.tag = "S64" -> Ok(<<"i","n","t"," ","/","*"," ","S","6","4"," ","*","/">>)
      [] ty.tag = "U8" -> Ok(<<"i","n","t"," ","/","*"," ","U","8"," ","*","/">>)
      [] ty.tag = "U16" -> Ok(<<"i","n","t"," ","/","*"," ","U","1","6"," ","*","/">>)
      [] ty.tag = "U32" -> Ok(<<"i","n","t"," ","/","*"," ","U","3","2"," ","*","/">>)
      [] ty.tag = "U64" -> Ok(<<"i","n","t"," ","/","*"," ","U","6","4"," ","*","/">>)


\* name.unwrap().to_string() of the arms that need the PascalCase name
PascalName(def) ==
    IF IsSome(def.name) THEN Ok(AsPascalCase(Unwrap(def.name))) ELSE Panic("noname")

\* format!("{pre}{}{post}", r)
Wrap(pre, r, post) == IF IsOk(r) THEN Ok(pre \o r.v \o post) ELSE r

RECURSIVE TypeToStr(_, _), TypeDefToName(_, _)

TypeToStr(ty, fuel) ==
    IF ty.tag = "Id"
      THEN LET got == TypesGet(ty.id)
           IN  IF ~IsSome(got) THEN Panic("dangling")
               ELSE IF fuel = 0 THEN Diverge
               ELSE TypeDefToName(Unwrap(got), fuel - 1)
      ELSE type_to_str_scalar(ty)

TypeDefToName(def, fuel) ==
    LET k == def.kind.k
        opt(o) == IF IsSome(o) THEN TypeToStr(Unwrap(o), fuel) ELSE Ok(<<"v","o","i","d">>)
    IN  CASE k \in {"Record", "Enum", "Union", "Flags", "Variant"} -> PascalName(def)
          [] k = "Tuple" ->
               LET rs == [i \in 1..Len(def.kind.types) |-> type_to_ffi(def.kind.types[i])]
               IN  IF AllOk(rs) THEN Ok(<<"(">> \o Join(Values(rs), <<","," ">>) \o <<")">>)
                   ELSE FirstFailure(rs)
          [] k = "Option" -> Wrap(<<"O","p","t","i","o","n","<">>, TypeToStr(def.kind.ty, fuel), <<">">>)
          [] k = "Result" ->
               LET rs == <<opt(def.kind.ok), opt(def.kind.err)>>
               IN  IF AllOk(rs) THEN Ok(<<"R","e","s","u","l","t","<">> \o rs[1].v \o <<","," ">> \o rs[2].v \o <<">">>)
                   ELSE FirstFailure(rs)
          [] k = "List" -> Wrap(<<"L","i","s","t","<">>, TypeToStr(def.kind.ty, fuel), <<">">>)
          [] k = "Future" -> Wrap(<<"F","u","t","u","r","e","<">>, opt(def.kind.ty), <<">">>)
          [] k = "Stream" -> Wrap(<<"S","t","r","e","a","m","<">>, opt(def.kind.element), <<">">>)
          [] k = "Type" -> TypeToStr(def.kind.ty, fuel)
          [] k = "Unknown" -> Panic("unknown")

type_to_str(ty) == TypeToStr(ty, Fuel)

type_def_to_name(def) == TypeDefToName(def, Fuel)

----------------------------------------------------------------------------
(* Definitions *)

RECURSIVE ToDecimal(_)
\* format!("{}", i) of an index
ToDecimal(i) ==
    IF i < 10 THEN <<Digits[i + 1]>> ELSE ToDecimal(i \div 10) \o <<Digits[(i % 10) + 1]>>

\* RecordField with the marshalling name of the type of the field
RecordFieldMarshalled(f) ==
    LET r == type_to_ffi(f.ty)
    IN  IF IsOk(r) THEN Ok(add_docs(<<>>, f.docs) \o <<"f","i","n","a","l"," ">> \o r.v \o <<" ">> \o f.name \o <<";">>)
        ELSE r

\* the text one Record field adds: its docs, then final {type} {name};
RecordField(f) ==
    LET r == type_to_str(f.ty)
    IN  IF IsOk(r) THEN Ok(add_docs(<<>>, f.docs) \o <<"f","i","n","a","l"," ">> \o r.v \o <<" ">> \o f.name \o <<";">>)
        ELSE r

EnumCase(v) == add_docs(<<>>, v.docs) \o AsLowerCamelCase(v.name) \o <<",">>

\* UnionCase with the subtype named after the marshalling name of the payload
UnionCaseByMarshallingName(name, v) ==
    LET r == type_to_str(v.ty)
        inner_name == IF v.ty.tag = "Id" THEN AsPascalCase(r.v) ELSE type_to_ffi(v.ty).v
    IN  IF IsOk(r)
          THEN Ok(add_docs(<<>>, v.docs)
                  \o <<"c","l","a","s","s"," ">> \o name \o inner_name \o <<" ","i","m","p","l","e","m","e","n","t","s"," ">> \o name
                  \o <<" ","{"," ","f","i","n","a","l"," ">> \o r.v \o <<" ","v","a","l","u","e",";"," ","c","o","n","s","t"," ">> \o name \o inner_name
                  \o <<"(","t","h","i","s",".","v","a","l","u","e",")",";"," ","}">>)
          ELSE r

UnionCase(name, v) ==
    LET r == type_to_str(v.ty)
        inner_name == AsPascalCase(r.v)
    IN  IF IsOk(r)
          THEN Ok(add_docs(<<>>, v.docs)
                  \o <<"c","l","a","s","s"," ">> \o name \o inner_name \o <<" ","i","m","p","l","e","m","e","n","t","s"," ">> \o name
                  \o <<" ","{"," ","f","i","n","a","l"," ">> \o r.v \o <<" ","v","a","l","u","e",";"," ","c","o","n","s","t"," ">> \o name \o inner_name
                  \o <<"(","t","h","i","s",".","v","a","l","u","e",")",";"," ","}">>)
          ELSE r

\* VariantCase with the payload of a case left out
VariantCaseWithoutPayload(name, v) ==
    LET inner_name == AsPascalCase(v.name)
    IN  Ok(add_docs(<<>>, v.docs)
           \o <<"c","l","a","s","s"," ">> \o name \o inner_name \o <<" ","i","m","p","l","e","m","e","n","t","s"," ">> \o name
           \o <<" ","{"," ","c","o","n","s","t"," ">> \o name \o inner_name \o <<"(",")",";"," ","}">>)

VariantCase(name, v) ==
    LET inner_name == AsPascalCase(v.name)
    IN  IF IsSome(v.ty)
          THEN LET r == type_to_str(Unwrap(v.ty))
               IN  IF IsOk(r)
                     THEN Ok(add_docs(<<>>, v.docs)
                             \o <<"c","l","a","s","s"," ">> \o name \o inner_name \o <<" ","i","m","p","l","e","m","e","n","t","s"," ">> \o name
                             \o <<" ","{"," ","f","i","n","a","l"," ">> \o r.v \o <<" ","v","a","l","u","e",";"," ","c","o","n","s","t"," ">> \o name \o inner_name
                             \o <<"(","t","h","i","s",".","v","a","l","u","e",")",";"," ","}">>)
                     ELSE r
          ELSE Ok(add_docs(<<>>, v.docs)
                  \o <<"c","l","a","s","s"," ">> \o name \o inner_name \o <<" ","i","m","p","l","e","m","e","n","t","s"," ">> \o name
                  \o <<" ","{"," ","c","o","n","s","t"," ">> \o name \o inner_name \o <<"(",")",";"," ","}">>)

FlagConst(v, i) == add_docs(<<>>, v.docs) \o <<"s","t","a","t","i","c"," ","c","o","n","s","t"," ">> \o v.name \o <<" ","="," ">> \o ToDecimal(i) \o <<";">>

\* s after pushing the text of every element, or the first failure
PushAll(buf, rs) == IF AllOk(rs) THEN Ok(buf \o Flatten(Values(rs))) ELSE FirstFailure(rs)

RECURSIVE TypeToDartDefinition(_, _), TypeDefToDefinition(_, _)

TypeToDartDefinition(ty, fuel) ==
    IF ty.tag = "Id"
      THEN LET got == TypesGet(ty.id)
           IN  IF ~IsSome(got) THEN Panic("dangling")
               ELSE IF fuel = 0 THEN Diverge
               ELSE TypeDefToDefinition(Unwrap(got), fuel - 1)
      ELSE Ok(<<>>)

\* the TypeDefKind::Type arm: the definition of the aliased type
AliasDefinition(docs, ty, fuel) == TypeToDartDefinition(ty, fuel)

\* the arms of the kinds without a definition: s as it stands
StructuralDefinition(docs) == Ok(docs)

TypeDefToDefinition(def, fuel) ==
    LET k == def.kind.k
        docs == add_docs(<<>>, def.docs)
        name == PascalName(def)
    IN  CASE k = "Record" ->
               IF ~IsOk(name) THEN name
               ELSE LET fs == def.kind.fields
                        head == docs \o <<"c","l","a","s","s"," ">> \o name.v \o <<" ","{">>
                        body == PushAll(head, [i \in 1..Len(fs) |-> RecordField(fs[i])])
                        req == [i \in 1..Len(fs) |-> <<"r","e","q","u","i","r","e","d"," ","t","h","i","s",".">> \o fs[i].name \o <<",">>]
                    IN  IF IsOk(body)
                          THEN Ok(body.v \o <<"c","o","n","s","t"," ">> \o name.v \o <<"(","{">> \o Flatten(req) \o <<"}",")",";","}">>)
                          ELSE body
          [] k = "Enum" ->
               IF ~IsOk(name) THEN name
               ELSE LET cs == def.kind.cases
                    IN  Ok(docs \o <<"e","n","u","m"," ">> \o name.v \o <<" ","{">>
                           \o Flatten([i \in 1..Len(cs) |-> EnumCase(cs[i])]) \o <<"}">>)
          [] k = "Union" ->
               IF ~IsOk(name) THEN name
               ELSE LET cs == def.kind.cases
                    IN  PushAll(docs \o <<"s","e","a","l","e","d"," ","c","l","a","s","s"," ">> \o name.v \o <<" ","{","}">>,
                                [i \in 1..Len(cs) |-> UnionCase(name.v, cs[i])])
          [] k = "Variant" ->
               IF ~IsOk(name) THEN name
               ELSE LET cs == def.kind.cases
                    IN  PushAll(docs \o <<"s","e","a","l","e","d"," ","c","l","a","s","s"," ">> \o name.v \o <<" ","{","}">>,
                                [i \in 1..Len(cs) |-> VariantCase(name.v, cs[i])])
          [] k = "Flags" ->
               IF ~IsOk(name) THEN name
               ELSE LET fl == def.kind.flags
                    IN  Ok(docs \o <<"t","y","p","e","d","e","f"," ">> \o name.v \o <<" ","="," ","i","n","t",";"," ","c","l","a","s","s"," ">> \o name.v \o <<"F","l","a","g"," ","{">>
                           \o Flatten([i \in 1..Len(fl) |-> FlagConst(fl[i], i - 1)]) \o <<"}">>)
          [] k = "Type" -> AliasDefinition(docs, def.kind.ty, fuel)
          [] k \in {"List", "Tuple", "Option", "Result", "Future", "Stream"} ->
               StructuralDefinition(docs)
          [] k = "Unknown" -> Panic("unknown")

type_to_dart_definition(ty) == TypeToDartDefinition(ty, Fuel)

type_def_to_definition(def) == TypeDefToDefinition(def, Fuel)

----------------------------------------------------------------------------
(* Emission into the shared buffer.  The outcome of an emission routine    *)
(* carries the buffer as the routine leaves it: on a panic, what had been  *)
(* pushed before the panic.                                                *)

\* the failure r met while the buffer held buf
AbortWith(r, buf) == [st |-> r.st, why |-> r.why, v |-> buf]

\* format!("{} {}", self.type_to_str(ty), name)
TypedName(p) == Wrap(<<>>, type_to_str(p.ty), <<" ">> \o p.name)

\* the params of add_function: Type name, joined by ","
ParamList(params) ==
    LET rs == [i \in 1..Len(params) |-> TypedName(params[i])]
    IN  IF AllOk(rs) THEN Ok(Join(Values(rs), <<",">>)) ELSE FirstFailure(rs)

\* ForwardedArgs without the last parameter
ForwardedArgsButLast(params) ==
    Join([i \in 1..(Len(params) - 1) |-> params[i].name], <<","," ">>)

\* the names forwarded by the MethodCall body, joined by ", "
ForwardedArgs(params) == Join([i \in 1..Len(params) |-> params[i].name], <<","," ">>)

\* ResultType without the replacement of an empty rendering by void
ResultTypeAsRendered(results) ==
    IF results.k = "Anon" THEN type_to_str(results.ty) ELSE ParamList(results.list)

\* the results of add_function, void when the rendering is empty
ResultType(results) ==
    LET r == IF results.k = "Anon" THEN type_to_str(results.ty) ELSE ParamList(results.list)
    IN  IF IsOk(r) /\ r.v = <<>> THEN Ok(<<"v","o","i","d">>) ELSE r

\* the text add_function pushes once params and results are rendered
FunctionText(docs, f, kind, params, results) ==
    CASE kind = "Field" ->
           Ok(docs \o <<"f","i","n","a","l"," ">> \o results.v \o <<" ","F","u","n","c","t","i","o","n","(">> \o params.v \o <<")"," ">> \o f.name \o <<";">>)
      [] kind = "Method" ->
           Ok(docs \o results.v \o <<" ">> \o f.name \o <<"(">> \o params.v \o <<")",";">>)
      [] kind = "MethodCall" ->
           Ok(docs \o <<"l","a","t","e"," ","f","i","n","a","l"," ","_">> \o f.name \o <<" ","="," ","l","o","o","k","u","p","(","'">> \o f.name \o <<"'",")",";">>
              \o results.v \o <<" ">> \o f.name \o <<"(">> \o params.v \o <<")"," ","{">>
              \o <<"r","e","t","u","r","n"," ","_">> \o f.name \o <<"(">> \o ForwardedArgs(f.params) \o <<")",";">>
              \o <<"}">>)

\* add_function with the documentation pushed before the types are resolved
add_function_docs_first(buf, f, kind) ==
    LET params == ParamList(f.params)
        results == ResultType(f.results)
        docs == add_docs(buf, f.docs)
    IN  IF ~IsOk(params) THEN AbortWith(params, docs)
        ELSE IF ~IsOk(results) THEN AbortWith(results, docs)
        ELSE FunctionText(docs, f, kind, params, results)

\* add_function with the documentation of a function pushed only the first
\* time the function is rendered
add_function_docs_once(buf, f, kind) ==
    LET params == ParamList(f.params)
        results == ResultType(f.results)
        seen == \E i \in DOMAIN log : log[i].op = "add_function" /\ log[i].arg.f = f
        docs == IF seen THEN buf ELSE add_docs(buf, f.docs)
    IN  IF ~IsOk(params) THEN AbortWith(params, buf)
        ELSE IF ~IsOk(results) THEN AbortWith(results, buf)
        ELSE FunctionText(docs, f, kind, params, results)

add_function(buf, f, kind) ==
    LET params == ParamList(f.params)
        results == ResultType(f.results)
        docs == add_docs(buf, f.docs)
    IN  IF ~IsOk(params) THEN AbortWith(params, buf)
        ELSE IF ~IsOk(results) THEN AbortWith(results, buf)
        ELSE FunctionText(docs, f, kind, params, results)

RECURSIVE AddFunctions(_, _, _)
\* interface.functions.iter().for_each(add_function(.., FuncKind::Method)),
\* from the n-th function on; a panic ends the iteration
AddFunctions(acc, fs, n) ==
    IF n > Len(fs) \/ ~IsOk(acc) THEN acc
    ELSE AddFunctions(add_function(acc.v, fs[n], "Method"), fs, n + 1)

\* add_interface without the member of the last function
add_interface_but_last(out, name, interface) ==
    LET opened == add_docs(out, interface.docs) \o <<"c","l","a","s","s"," ">> \o name \o <<" ","{">>
        fs == interface.functions
        body == AddFunctions(Ok(opened), SubSeq(fs, 1, Len(fs) - 1), 1)
    IN  IF IsOk(body) THEN Ok(body.v \o <<"}">>) ELSE body

add_interface(out, name, interface) ==
    LET opened == add_docs(out, interface.docs) \o <<"c","l","a","s","s"," ">> \o name \o <<" ","{">>
        body == AddFunctions(Ok(opened), interface.functions, 1)
    IN  IF IsOk(body) THEN Ok(body.v \o <<"}">>) ELSE body

\* UnresolvedPackage.interfaces.get(id)
InterfacesGet(id) == IF id \in DOMAIN pkg.interfaces THEN Some(pkg.interfaces[id]) ELSE None

RECURSIVE AddWorldItems(_, _, _)
\* map.for_each over the (id, item) pairs, from the n-th pair on: an
\* interface item adds the class of its interface under the PascalCase id,
\* any other item adds nothing; a panic ends the iteration
AddWorldItems(acc, map, n) ==
    IF n > Len(map) \/ ~IsOk(acc) THEN acc
    ELSE IF map[n].item.k # "Interface" THEN AddWorldItems(acc, map, n + 1)
    ELSE IF ~IsSome(InterfacesGet(map[n].item.id))
      THEN AbortWith(Panic("nointerface"), acc.v)
    ELSE AddWorldItems(add_interface(acc.v, AsPascalCase(map[n].id),
                                     Unwrap(InterfacesGet(map[n].item.id))),
                       map, n + 1)

\* add_interfaces writing into a String of its own
add_interfaces_own_buffer(out, map) == AddWorldItems(Ok(<<>>), map, 1)

add_interfaces(out, map) == AddWorldItems(Ok(out), map, 1)

----------------------------------------------------------------------------
(* The packages and arguments the entry points are called with *)

Seqs(S, n) == UNION {[1..m -> S] : m \in 0..n}

\* the i-th identifier of a list: a, b, c, ...
Ident(i) == <<Lowers[i]>>
\* kebab-case identifiers, as WIT writes them
TypeName(i) == <<"m","y","-","t","y","p","e","-">> \o Ident(i)
CaseName(i) == <<"c","a","s","e","-">> \o Ident(i)

U8 == Scalar("U8")
U32 == Scalar("U32")
Bool == Scalar("Bool")
NoDocs == None
SomeDocs == Some(<<"d","o","c">>)
\* the documentation of the i-th arena entry
DocsOf(i) == Some(<<"a","b","o","u","t"," ">> \o TypeName(i))

TypeIds == 1..NumTypes
DanglingId == NumTypes + 1

Refs == {U8, Bool} \cup {Id(i) : i \in 1..DanglingId}
TupleRefs == {U8, Bool, Id(NumTypes), Id(DanglingId)}
PayloadRefs == {U8, Id(NumTypes)}
OptRefs == {None} \cup {Some(r) : r \in PayloadRefs}

TypeDefKinds ==
    {[k |-> "Record",
      fields |-> [i \in 1..Len(ts) |-> [name |-> Ident(i), ty |-> ts[i], docs |-> NoDocs]]]
        : ts \in Seqs({U32, Id(NumTypes)}, MaxLen)}
    \cup {[k |-> "Enum", cases |-> [i \in 1..m |-> [name |-> CaseName(i), docs |-> NoDocs]]]
            : m \in 0..MaxLen}
    \cup {[k |-> "Union", cases |-> [i \in 1..Len(ts) |-> [ty |-> ts[i], docs |-> NoDocs]]]
            : ts \in Seqs(PayloadRefs, MaxLen)}
    \cup {[k |-> "Variant",
           cases |-> [i \in 1..Len(ts) |-> [name |-> CaseName(i), ty |-> ts[i], docs |-> NoDocs]]]
            : ts \in Seqs({None, Some(U8), Some(Id(NumTypes))}, MaxLen)}
    \cup {[k |-> "Flags", flags |-> [i \in 1..m |-> [name |-> Ident(i), docs |-> NoDocs]]]
            : m \in 0..MaxLen}
    \cup {[k |-> "Tuple", types |-> ts] : ts \in Seqs(TupleRefs, MaxLen)}
    \cup {[k |-> "Option", ty |-> r] : r \in Refs}
    \cup {[k |-> "Result", ok |-> a, err |-> b] : a \in OptRefs, b \in OptRefs}
    \cup {[k |-> "List", ty |-> r] : r \in Refs}
    \cup {[k |-> "Future", ty |-> a] : a \in OptRefs}
    \cup {[k |-> "Stream", element |-> a, end |-> None] : a \in OptRefs}
    \cup {[k |-> "Type", ty |-> r] : r \in Refs}
    \cup {[k |-> "Unknown"]}

\* what the arena entry i may hold: any kind, named after its place in the
\* arena (names are unique within a package) or anonymous
TypeDefs(i) ==
    {[name |-> n, kind |-> kd, docs |-> d]
        : n \in {None, Some(TypeName(i))}, kd \in TypeDefKinds, d \in {NoDocs, DocsOf(i)}}

\* the entries besides the first: a named record, an entry of the unknown
\* kind, and an anonymous alias of a scalar, of the first entry or of itself
SupportChoices == {"record", "unknown", "alias-scalar", "alias-first", "alias-self"}

SupportDef(i, c) ==
    CASE c = "record" ->
           [name |-> Some(TypeName(i)), kind |-> [k |-> "Record", fields |-> <<>>], docs |-> DocsOf(i)]
      [] c = "unknown" -> [name |-> None, kind |-> [k |-> "Unknown"], docs |-> NoDocs]
      [] c = "alias-scalar" -> [name |-> None, kind |-> [k |-> "Type", ty |-> U8], docs |-> DocsOf(i)]
      [] c = "alias-first" -> [name |-> None, kind |-> [k |-> "Type", ty |-> Id(1)], docs |-> DocsOf(i)]
      [] c = "alias-self" -> [name |-> None, kind |-> [k |-> "Type", ty |-> Id(i)], docs |-> DocsOf(i)]

Arenas ==
    {[i \in TypeIds |-> IF i = 1 THEN d ELSE SupportDef(i, sup[i])]
        : d \in TypeDefs(1), sup \in [TypeIds \ {1} -> SupportChoices]}

Packages == {[types |-> ts] : ts \in Arenas}

TypeArgs == Scalars \cup {Id(i) : i \in 1..DanglingId}

----------------------------------------------------------------------------
(* Calls of the name and definition entry points *)

\* where an outcome leaves the process
PhaseAfter(r) == IF IsOk(r) THEN "returned" ELSE IF r.st = "panic" THEN "aborted" ELSE "diverged"

\* one invocation of an entry point on a freshly built Parsed: it returns its
\* String, or the process aborts in a panic, or the call never returns
Call(o, a, r) ==
    /\ phase = "idle"
    /\ op' = o /\ arg' = a /\ ret' = r
    /\ phase' = PhaseAfter(r)
    /\ UNCHANGED <<pkg, s, cur, hops, log>>

CallTypeToFfi == \E ty \in TypeArgs : Call("type_to_ffi", ty, type_to_ffi(ty))
CallTypeToStr == \E ty \in TypeArgs : Call("type_to_str", ty, type_to_str(ty))
CallTypeToDartDefinition ==
    \E ty \in TypeArgs : Call("type_to_dart_definition", ty, type_to_dart_definition(ty))
CallTypeDefToName ==
    \E i \in DOMAIN pkg.types : Call("type_def_to_name", pkg.types[i], type_def_to_name(pkg.types[i]))
CallTypeDefToDefinition ==
    \E i \in DOMAIN pkg.types :
        Call("type_def_to_definition", pkg.types[i], type_def_to_definition(pkg.types[i]))

NoCall == [st |-> "none", why |-> "", v |-> <<>>]

Init ==
    /\ pkg \in Packages
    /\ s = <<>>
    /\ op = "none" /\ arg = None /\ ret = NoCall
    /\ cur = None /\ hops = 0
    /\ phase = "idle"
    /\ log = <<>>

Next ==
    \/ CallTypeToFfi
    \/ CallTypeToStr
    \/ CallTypeToDartDefinition
    \/ CallTypeDefToName
    \/ CallTypeDefToDefinition

Spec == Init /\ [][Next]_vars

----------------------------------------------------------------------------
(* Calls of the emission routines on a buffer handed over by the caller *)

\* what the caller has put into the buffer before the call
InitialBuffers == {<<>>, <<"i","m","p","o","r","t"," ","'","x","'",";">>}

Named(ts) == [k |-> "Named", list |-> [i \in 1..Len(ts) |-> [name |-> Ident(i), ty |-> ts[i]]]]
Anon(ty) == [k |-> "Anon", ty |-> ty]
Params(ts) == [i \in 1..Len(ts) |-> [name |-> Ident(i), ty |-> ts[i]]]

ParamTypes == {U32, Id(1), Id(DanglingId)}
FuncResults == {Anon(U32), Anon(Id(NumTypes))} \cup {Named(ts) : ts \in Seqs({U32}, MaxLen)}

\* the functions add_function is called with: every parameter list with one
\* result type, and every result with the parameter lists of one type
Functions ==
    {[name |-> <<"a","d","d">>, params |-> Params(ts), results |-> Anon(U32), docs |-> d]
        : ts \in Seqs(ParamTypes, MaxLen), d \in {NoDocs, SomeDocs}}
    \cup {[name |-> <<"a","d","d">>, params |-> Params(ts), results |-> r, docs |-> d]
            : ts \in Seqs({U32}, MaxLen), r \in FuncResults, d \in {NoDocs, SomeDocs}}

FuncKinds == {"MethodCall", "Method", "Field"}

\* the functions of an interface: named by their place, each with one of a
\* few signatures
Signatures ==
    {[params |-> <<>>, results |-> Named(<<>>)],
     [params |-> Params(<<U32>>), results |-> Anon(U32)],
     [params |-> Params(<<Id(1)>>), results |-> Anon(U32)],
     [params |-> Params(<<Id(DanglingId)>>), results |-> Named(<<>>)]}

Interfaces ==
    {[name |-> Some(<<"c","a","l","c">>), docs |-> d,
      functions |-> [i \in 1..Len(sigs) |->
                       [name |-> <<"f","n","-">> \o Ident(i), params |-> sigs[i].params,
                        results |-> sigs[i].results, docs |-> NoDocs]]]
        : sigs \in Seqs(Signatures, MaxLen), d \in {NoDocs, SomeDocs}}

\* the interface arena of the packages: a documented interface of two
\* functions over scalars, and one whose function takes the first arena type
InterfaceArena ==
    <<[name |-> Some(<<"c","a","l","c">>), docs |-> SomeDocs,
       functions |-> <<[name |-> <<"f","n","-","a">>, params |-> Params(<<U32, U32>>),
                        results |-> Anon(U32), docs |-> SomeDocs],
                       [name |-> <<"f","n","-","b">>, params |-> <<>>,
                        results |-> Named(<<>>), docs |-> NoDocs]>>],
      [name |-> Some(<<"s","t","o","r","e">>), docs |-> NoDocs,
       functions |-> <<[name |-> <<"f","n","-","a">>, params |-> Params(<<Id(1)>>),
                        results |-> Named(<<U32>>), docs |-> NoDocs]>>]>>

DanglingInterface == Len(InterfaceArena) + 1

\* wit_parser::WorldItem
InterfaceItem(i) == [k |-> "Interface", id |-> i]
FunctionItem == [k |-> "Function", id |-> 0]
TypeItem == [k |-> "Type", id |-> 0]

WorldItems == {InterfaceItem(i) : i \in 1..DanglingInterface} \cup {FunctionItem, TypeItem}

\* the identifier of the i-th item of a world
WorldId(i) == <<"i","f","a","c","e","-">> \o Ident(i)

\* the (id, item) pairs an iterator over the imports or exports of a world
\* yields, in its order
Worlds ==
    {[i \in 1..Len(items) |-> [id |-> WorldId(i), item |-> items[i]]]
        : items \in Seqs(WorldItems, MaxLen)}

\* arenas of a named record, aliases and unknown kinds only, with the
\* interface arena
EmitPackages ==
    {[types |-> [i \in TypeIds |-> SupportDef(i, sup[i])], interfaces |-> InterfaceArena]
        : sup \in [TypeIds -> SupportChoices]}

\* the packages the classes of interfaces are emitted from: every entry of
\* the type arena a record, an alias of a scalar, or of the unknown kind
InterfacePackages ==
    {[types |-> [i \in TypeIds |-> SupportDef(i, c)], interfaces |-> InterfaceArena]
        : c \in {"record", "alias-scalar", "unknown"}}

\* one emission call: the buffer is left as the routine left it
Emit(o, a, r) ==
    /\ phase = "idle"
    /\ op' = o /\ arg' = a /\ ret' = r
    /\ s' = r.v
    /\ phase' = PhaseAfter(r)
    /\ UNCHANGED <<pkg, cur, hops, log>>

AddFunction ==
    /\ phase = "idle"
    /\ \E f \in Functions, kind \in FuncKinds :
          Emit("add_function", [f |-> f, kind |-> kind, before |-> s], add_function(s, f, kind))

AddInterface ==
    /\ phase = "idle"
    /\ \E i \in Interfaces :
          Emit("add_interface", [name |-> <<"C","a","l","c">>, interface |-> i, before |-> s],
               add_interface(s, <<"C","a","l","c">>, i))

InitEmit ==
    /\ pkg \in EmitPackages
    /\ s \in InitialBuffers
    /\ op = "none" /\ arg = None /\ ret = NoCall
    /\ cur = None /\ hops = 0
    /\ phase = "idle"
    /\ log = <<>>

NextEmit == AddFunction \/ AddInterface

SpecEmit == InitEmit /\ [][NextEmit]_vars

----------------------------------------------------------------------------
(* Calls of the interface emitter: the class of one interface, or the      *)
(* classes of the interfaces among the items of a world                    *)

AddInterfaces ==
    /\ phase = "idle"
    /\ \E map \in Worlds :
          Emit("add_interfaces", [map |-> map, before |-> s], add_interfaces(s, map))

InitWorld ==
    /\ pkg \in InterfacePackages
    /\ s \in InitialBuffers
    /\ op = "none" /\ arg = None /\ ret = NoCall
    /\ cur = None /\ hops = 0
    /\ phase = "idle"
    /\ log = <<>>

NextWorld == AddInterface \/ AddInterfaces

SpecWorld == InitWorld /\ [][NextWorld]_vars

----------------------------------------------------------------------------
(* Sessions: several emission calls in a row, on the buffer the caller has  *)
(* been filling or on a new one                                            *)

SessionFunctions ==
    {[name |-> <<"a","d","d">>, params |-> Params(<<U32, Id(1)>>), results |-> Anon(U32), docs |-> SomeDocs],
     [name |-> <<"r","e","s","e","t">>, params |-> <<>>, results |-> Named(<<>>), docs |-> NoDocs]}

SessionWorlds ==
    {[i \in 1..Len(items) |-> [id |-> WorldId(i), item |-> items[i]]]
        : items \in {<<InterfaceItem(1)>>, <<TypeItem, InterfaceItem(2)>>,
                     <<InterfaceItem(DanglingInterface)>>}}

\* one emission call of a session: a returned call leaves the caller free to
\* go on, a panic ends the process
SessionCall(o, a, r) ==
    /\ phase \in {"idle", "returned"}
    /\ Len(log) < MaxCalls
    /\ op' = o /\ arg' = a /\ ret' = r
    /\ s' = r.v
    /\ phase' = PhaseAfter(r)
    /\ log' = Append(log, [op |-> o, arg |-> a, out |-> r])
    /\ UNCHANGED <<pkg, cur, hops>>

SessionAddFunction ==
    \E f \in SessionFunctions, kind \in FuncKinds :
        SessionCall("add_function", [f |-> f, kind |-> kind, before |-> s], add_function(s, f, kind))

SessionAddInterface ==
    \E i \in DOMAIN pkg.interfaces :
        SessionCall("add_interface", [name |-> <<"C","a","l","c">>, interface |-> pkg.interfaces[i], before |-> s],
                    add_interface(s, <<"C","a","l","c">>, pkg.interfaces[i]))

SessionAddInterfaces ==
    \E map \in SessionWorlds :
        SessionCall("add_interfaces", [map |-> map, before |-> s], add_interfaces(s, map))

\* the caller takes the text and passes a new, empty String to the next call
NewBuffer ==
    /\ phase = "returned"
    /\ s # <<>>
    /\ Len(log) < MaxCalls
    /\ s' = <<>>
    /\ phase' = "idle"
    /\ UNCHANGED <<pkg, op, arg, ret, cur, hops, log>>

InitSession ==
    /\ pkg \in InterfacePackages
    /\ s = <<>>
    /\ op = "none" /\ arg = None /\ ret = NoCall
    /\ cur = None /\ hops = 0
    /\ phase = "idle"
    /\ log = <<>>

NextSession == SessionAddFunction \/ SessionAddInterface \/ SessionAddInterfaces \/ NewBuffer

SpecSession == InitSession /\ [][NextSession]_vars

----------------------------------------------------------------------------
(* Resolution of a reference, one alias at a time: type_to_str calls       *)
(* type_def_to_name, whose Type arm calls type_to_str again, and           *)
(* type_to_dart_definition calls type_def_to_definition, whose Type arm    *)
(* calls type_to_dart_definition again                                     *)

Resolvers == {"type_to_str", "type_to_dart_definition"}

BigStep(o, ty) == IF o = "type_to_str" THEN type_to_str(ty) ELSE type_to_dart_definition(ty)

\* the reference being resolved names an alias entry of the arena
AtAlias ==
    /\ IsSome(cur)
    /\ Unwrap(cur).tag = "Id"
    /\ IsSome(TypesGet(Unwrap(cur).id))
    /\ Unwrap(TypesGet(Unwrap(cur).id)).kind.k = "Type"

ResolveStart ==
    \E o \in Resolvers, ty \in TypeArgs :
        /\ phase = "idle"
        /\ op' = o /\ arg' = ty
        /\ cur' = Some(ty) /\ hops' = 0
        /\ phase' = "resolving"
        /\ UNCHANGED <<pkg, s, ret, log>>

\* the Type arm: the same routine on the aliased type
ResolveHop ==
    /\ phase = "resolving"
    /\ AtAlias
    /\ hops < HopCap
    /\ cur' = Some(Unwrap(TypesGet(Unwrap(cur).id)).kind.ty)
    /\ hops' = hops + 1
    /\ UNCHANGED <<pkg, s, op, arg, ret, phase, log>>

\* a scalar, a missing entry or an entry of another kind: the call returns
\* or panics there
ResolveEnd ==
    /\ phase = "resolving"
    /\ ~AtAlias
    /\ ret' = BigStep(op, Unwrap(cur))
    /\ phase' = PhaseAfter(ret')
    /\ UNCHANGED <<pkg, s, op, arg, cur, hops, log>>

\* the chain is still at an alias after HopCap hops: the nested calls go on
\* until the stack is exhausted, or for ever where the build turns the tail
\* calls into jumps
ResolveOverflow ==
    /\ phase = "resolving"
    /\ AtAlias
    /\ hops = HopCap
    /\ ret' = Diverge
    /\ phase' = PhaseAfter(ret')
    /\ UNCHANGED <<pkg, s, op, arg, cur, hops, log>>

NextResolve == ResolveStart \/ ResolveHop \/ ResolveEnd \/ ResolveOverflow

SpecResolve == Init /\ [][NextResolve]_vars

----------------------------------------------------------------------------
(* Properties of the name and definition entry points (Spec) *)

\* results of the elements of a list under a mapping, as a joined list
JoinedNames(rs) == Join(Values(rs), <<","," ">>)

IdiomaticNames(types) == [i \in 1..Len(types) |-> type_to_str(types[i])]
MarshallingNames(types) == [i \in 1..Len(types) |-> type_to_ffi(types[i])]

\* C1: the idiomatic name of a Tuple TypeDef is the parenthesized,
\* comma-joined list of the idiomatic names (type_to_str) of its element
\* types, in declaration order
C1_TupleNameIsIdiomatic ==
    (/\ op = "type_def_to_name"
     /\ arg.kind.k = "Tuple"
     /\ AllOk(IdiomaticNames(arg.kind.types)))
        => ret = Ok(<<"(">> \o JoinedNames(IdiomaticNames(arg.kind.types)) \o <<")">>)

\* the ids a definition mentions
KindRefs(kd) ==
    CASE kd.k = "Record" -> {kd.fields[i].ty : i \in 1..Len(kd.fields)}
      [] kd.k = "Union" -> {kd.cases[i].ty : i \in 1..Len(kd.cases)}
      [] kd.k = "Variant" ->
           {Unwrap(kd.cases[i].ty) : i \in {j \in 1..Len(kd.cases) : IsSome(kd.cases[j].ty)}}
      [] kd.k = "Tuple" -> {kd.types[i] : i \in 1..Len(kd.types)}
      [] kd.k \in {"Option", "List", "Type"} -> {kd.ty}
      [] kd.k = "Result" -> Range(kd.ok) \cup Range(kd.err)
      [] kd.k = "Future" -> Range(kd.ty)
      [] kd.k = "Stream" -> Range(kd.element)
      [] OTHER -> {}

RefIds(def) == {r.id : r \in {x \in KindRefs(def.kind) : x.tag = "Id"}}

RECURSIVE ReachableIds(_, _)
\* the ids reached from the ids in from within n references
ReachableIds(from, n) ==
    IF n = 0 THEN from
    ELSE ReachableIds(from \cup UNION {RefIds(pkg.types[i]) : i \in from \cap DOMAIN pkg.types}, n - 1)

\* a package the upstream parser can hand over and the claim covers: every
\* id resolves, no entry is of the unknown kind, no entry refers back to
\* itself, and the kinds WIT declares by name carry their name
IntactPackage ==
    /\ \A i \in DOMAIN pkg.types :
          /\ RefIds(pkg.types[i]) \subseteq DOMAIN pkg.types
          /\ pkg.types[i].kind.k # "Unknown"
          /\ i \notin ReachableIds(RefIds(pkg.types[i]), Len(pkg.types))
          /\ pkg.types[i].kind.k \in {"Record", "Enum", "Union", "Variant", "Flags"}
                => IsSome(pkg.types[i].name)

\* the argument of the call refers to an entry of the arena, if to any
ArgResolves ==
    op \in {"type_to_ffi", "type_to_str", "type_to_dart_definition"}
        => (arg.tag = "Id" => arg.id \in DOMAIN pkg.types)

\* C4: on a package whose ids all resolve, without an entry of the unknown
\* kind and without a cyclic chain, every entry point returns a rendering
C4_OnlyDanglingAndUnknownAbort ==
    (op # "none" /\ IntactPackage /\ ArgResolves) => IsOk(ret)

\* C5: the marshalling name of a reference to a Tuple TypeDef is the
\* parenthesized, comma-joined list of the marshalling names of its element
\* types, whether or not the tuple carries a name
C5_TupleMarshallingName ==
    (/\ op = "type_to_ffi"
     /\ arg.tag = "Id"
     /\ arg.id \in DOMAIN pkg.types
     /\ pkg.types[arg.id].kind.k = "Tuple"
     /\ AllOk(MarshallingNames(pkg.types[arg.id].kind.types)))
        => ret = Ok(<<"(">> \o JoinedNames(MarshallingNames(pkg.types[arg.id].kind.types)) \o <<")">>)

StructuralKinds == {"Tuple", "Option", "Result", "List", "Future", "Stream"}

\* C6: the documentation of a TypeDef comes first in the text
\* type_def_to_definition returns for it, for every kind with a definition,
\* an alias of a defined type included
C6_DocsPrecedeDefinition ==
    (/\ op = "type_def_to_definition"
     /\ IsOk(ret)
     /\ IsSome(arg.docs)
     /\ arg.kind.k \notin StructuralKinds
     /\ ret.v # <<>>)
        => IsPrefix(add_docs(<<>>, arg.docs), ret.v)

\* C7: type_def_to_definition returns the empty text for every TypeDef of a
\* structural kind, documented or not
C7_StructuralKindsHaveNoDefinition ==
    (op = "type_def_to_definition" /\ arg.kind.k \in StructuralKinds) => ret = Ok(<<>>)

\* C8: the marshalling and the idiomatic name of a scalar are fixed by its
\* kind, whatever the package holds, and no call on a scalar aborts: the
\* marshalling names are those of the table, and the idiomatic name is bool,
\* String, double or int, which a comment naming the kind follows for char,
\* the floats and the integers
MarshallingTable ==
    [Bool |-> <<"B","o","o","l">>, String |-> <<"S","t","r","i","n","g">>, Char |-> <<"U","i","n","t","3","2">>,
     Float32 |-> <<"F","l","o","a","t">>, Float64 |-> <<"D","o","u","b","l","e">>,
     S8 |-> <<"I","n","t","8">>, S16 |-> <<"I","n","t","1","6">>, S32 |-> <<"I","n","t","3","2">>, S64 |-> <<"I","n","t","6","4">>,
     U8 |-> <<"U","i","n","t","8">>, U16 |-> <<"U","i","n","t","1","6">>, U32 |-> <<"U","i","n","t","3","2">>, U64 |-> <<"U","i","n","t","6","4">>]

IdiomaticTable ==
    [Bool |-> <<"b","o","o","l">>, String |-> <<"S","t","r","i","n","g">>, Char |-> <<"i","n","t">>,
     Float32 |-> <<"d","o","u","b","l","e">>, Float64 |-> <<"d","o","u","b","l","e">>,
     S8 |-> <<"i","n","t">>, S16 |-> <<"i","n","t">>, S32 |-> <<"i","n","t">>, S64 |-> <<"i","n","t">>,
     U8 |-> <<"i","n","t">>, U16 |-> <<"i","n","t">>, U32 |-> <<"i","n","t">>, U64 |-> <<"i","n","t">>]

KindText ==
    [Bool |-> <<"B","o","o","l">>, String |-> <<"S","t","r","i","n","g">>, Char |-> <<"C","h","a","r">>,
     Float32 |-> <<"F","l","o","a","t","3","2">>, Float64 |-> <<"F","l","o","a","t","6","4">>,
     S8 |-> <<"S","8">>, S16 |-> <<"S","1","6">>, S32 |-> <<"S","3","2">>, S64 |-> <<"S","6","4">>,
     U8 |-> <<"U","8">>, U16 |-> <<"U","1","6">>, U32 |-> <<"U","3","2">>, U64 |-> <<"U","6","4">>]

\* the Dart type a rendered name stands for: the name without its comment
DartType(text) == IF Contains(<<" ","/","*"," ">>, text) THEN BeforeFirst(<<" ","/","*"," ">>, text) ELSE text

C8_ScalarNamesFixed ==
    /\ (op = "type_to_ffi" /\ arg.tag # "Id") => ret = Ok(MarshallingTable[arg.tag])
    /\ (op = "type_to_str" /\ arg.tag # "Id") =>
          /\ IsOk(ret)
          /\ DartType(ret.v) = IdiomaticTable[arg.tag]
          /\ ret.v = IF arg.tag \in {"Bool", "String"} THEN IdiomaticTable[arg.tag]
                     ELSE IdiomaticTable[arg.tag] \o <<" ","/","*"," ">> \o KindText[arg.tag] \o <<" ","*","/">>

C8_Witness ==
    /\ op = "type_to_str" /\ arg = Scalar("Char") /\ IsOk(ret)
    /\ pkg.types[1].kind.k = "Unknown"

\* a definition returned by type_def_to_definition, after the documentation
\* of the TypeDef
DefinitionText == SubSeq(ret.v, Len(add_docs(<<>>, arg.docs)) + 1, Len(ret.v))

\* the PascalCase name of the TypeDef a definition was asked for
BaseName == AsPascalCase(Unwrap(arg.name))

\* the subtypes that follow the sealed base of a Union or Variant
\* definition, each up to its constructor
SealedBase == <<"s","e","a","l","e","d"," ","c","l","a","s","s"," ">> \o BaseName \o <<" ","{","}">>
Subtypes == SplitOn(SubSeq(DefinitionText, Len(SealedBase) + 1, Len(DefinitionText)), <<";"," ","}">>)

SubtypeName(e) == BeforeFirst(<<" ","i","m","p","l","e","m","e","n","t","s"," ">>, AfterFirst(<<"c","l","a","s","s"," ">>, e))
SubtypeBase(e) == BeforeFirst(<<" ","{"," ">>, AfterFirst(<<" ","i","m","p","l","e","m","e","n","t","s"," ">>, e))
SubtypeMembers(e) == AfterFirst(<<" ","{"," ">>, AfterFirst(<<" ","i","m","p","l","e","m","e","n","t","s"," ">>, e))
SubtypeFields(e) == Cardinality(Occurrences(<<"f","i","n","a","l"," ">>, SubtypeMembers(e)))
SubtypeConstructors(e) == Cardinality(Occurrences(<<"c","o","n","s","t"," ">>, SubtypeMembers(e)))

\* a subtype named n that holds one immutable value of the type ty and has
\* one constructor taking it
HoldsValue(e, n, ty) ==
    /\ SubtypeFields(e) = 1
    /\ SubtypeConstructors(e) = 1
    /\ SubtypeMembers(e) = <<"f","i","n","a","l"," ">> \o ty \o <<" ","v","a","l","u","e",";"," ","c","o","n","s","t"," ">> \o n \o <<"(","t","h","i","s",".","v","a","l","u","e",")">>

\* a subtype named n without a field and with a constructor of no argument
HoldsNothing(e, n) ==
    /\ SubtypeFields(e) = 0
    /\ SubtypeConstructors(e) = 1
    /\ SubtypeMembers(e) = <<"c","o","n","s","t"," ">> \o n \o <<"(",")">>

\* C12: the definition of a Variant TypeDef of n cases is a sealed base and
\* n subtypes of it in case order, the subtype of a case named base name +
\* PascalCase(case name); it holds one immutable value of the idiomatic type
\* of the payload and a one-argument constructor, or, for a case without
\* payload, no field and a zero-argument constructor
C12_VariantSubtypePerCase ==
    (op = "type_def_to_definition" /\ arg.kind.k = "Variant" /\ IsOk(ret)) =>
        LET cs == arg.kind.cases IN
        /\ IsPrefix(add_docs(<<>>, arg.docs) \o SealedBase, ret.v)
        /\ Cardinality(Occurrences(<<"s","e","a","l","e","d"," ","c","l","a","s","s"," ">>, ret.v)) = 1
        /\ Len(Subtypes) = Len(cs)
        /\ \A i \in 1..Len(cs) :
              LET e == Subtypes[i]
                  n == BaseName \o AsPascalCase(cs[i].name)
              IN  /\ IsPrefix(<<"c","l","a","s","s"," ">>, e)
                  /\ SubtypeName(e) = n
                  /\ SubtypeBase(e) = BaseName
                  /\ IF IsSome(cs[i].ty)
                       THEN HoldsValue(e, n, type_to_str(Unwrap(cs[i].ty)).v)
                       ELSE HoldsNothing(e, n)

C12_Witness ==
    /\ op = "type_def_to_definition" /\ arg.kind.k = "Variant" /\ IsOk(ret)
    /\ Len(arg.kind.cases) = 2
    /\ arg.kind.cases[1].ty = None
    /\ arg.kind.cases[2].ty = Some(Id(NumTypes))
    /\ IsSome(arg.docs)

\* C13: the definition of a Union TypeDef of n cases is a sealed base and n
\* subtypes of it in case order, the subtype of a case named base name +
\* PascalCase(idiomatic name of the payload type) and holding one immutable
\* value of the idiomatic type of the payload with one positional
\* constructor
C13_UnionSubtypePerCase ==
    (op = "type_def_to_definition" /\ arg.kind.k = "Union" /\ IsOk(ret)) =>
        LET cs == arg.kind.cases IN
        /\ IsPrefix(add_docs(<<>>, arg.docs) \o SealedBase, ret.v)
        /\ Cardinality(Occurrences(<<"s","e","a","l","e","d"," ","c","l","a","s","s"," ">>, ret.v)) = 1
        /\ Len(Subtypes) = Len(cs)
        /\ \A i \in 1..Len(cs) :
              LET e == Subtypes[i]
                  ty == type_to_str(cs[i].ty).v
                  n == BaseName \o AsPascalCase(ty)
              IN  /\ IsPrefix(<<"c","l","a","s","s"," ">>, e)
                  /\ SubtypeName(e) = n
                  /\ SubtypeBase(e) = BaseName
                  /\ HoldsValue(e, n, ty)

C13_Witness ==
    /\ op = "type_def_to_definition" /\ arg.kind.k = "Union" /\ IsOk(ret)
    /\ Len(arg.kind.cases) = 2
    /\ arg.kind.cases[1].ty = U8
    /\ arg.kind.cases[2].ty = Id(NumTypes)
    /\ SubtypeName(Subtypes[1]) = <<"M","y","T","y","p","e","A","I","n","t","U","8">>

\* the parts of a Record definition: the fields between the opening of the
\* class and the constructor, and the entries of the constructor
RecordOpening == <<"c","l","a","s","s"," ">> \o BaseName \o <<" ","{">>
ConstructorOpening == <<"c","o","n","s","t"," ">> \o BaseName \o <<"(","{">>
RecordFields ==
    SplitOn(BeforeFirst(ConstructorOpening,
                        SubSeq(DefinitionText, Len(RecordOpening) + 1, Len(DefinitionText))), <<";">>)
ConstructorEntries ==
    SplitOn(BeforeFirst(<<"}",")",";","}">>, AfterFirst(ConstructorOpening, DefinitionText)), <<",">>)

\* C14: the definition of a Record TypeDef of n fields is one class of n
\* immutable fields in declaration order, each with the name of the field
\* and the idiomatic name of its type, and one constructor that requires
\* each of the n fields by name in the same order
C14_RecordFieldsAndConstructor ==
    (op = "type_def_to_definition" /\ arg.kind.k = "Record" /\ IsOk(ret)) =>
        LET fs == arg.kind.fields IN
        /\ IsPrefix(add_docs(<<>>, arg.docs) \o RecordOpening, ret.v)
        /\ Cardinality(Occurrences(<<"c","l","a","s","s"," ">>, ret.v)) = 1
        /\ Cardinality(Occurrences(<<"c","o","n","s","t"," ">>, ret.v)) = 1
        /\ Cardinality(Occurrences(<<"f","i","n","a","l"," ">>, ret.v)) = Len(fs)
        /\ SubSeq(ret.v, Len(ret.v) - 3, Len(ret.v)) = <<"}",")",";","}">>
        /\ Len(RecordFields) = Len(fs)
        /\ Len(ConstructorEntries) = Len(fs)
        /\ \A i \in 1..Len(fs) :
              /\ RecordFields[i] = <<"f","i","n","a","l"," ">> \o type_to_str(fs[i].ty).v \o <<" ">> \o fs[i].name
              /\ ConstructorEntries[i] = <<"r","e","q","u","i","r","e","d"," ","t","h","i","s",".">> \o fs[i].name

C14_Witness ==
    /\ op = "type_def_to_definition" /\ arg.kind.k = "Record" /\ IsOk(ret)
    /\ Len(arg.kind.fields) = 2
    /\ arg.kind.fields[1].ty = U32
    /\ arg.kind.fields[2].ty = Id(NumTypes)
    /\ RecordFields[1] = <<"f","i","n","a","l"," ","i","n","t"," ","/","*"," ","U","3","2"," ","*","/"," ","a">>

\* C18: the subtypes of the definition of one Union TypeDef carry pairwise
\* distinct class names, whatever the list of cases: two cases of the same
\* payload type, or of payload types of the same PascalCase name, included
C18_UnionSubtypeNamesDistinct ==
    (op = "type_def_to_definition" /\ arg.kind.k = "Union" /\ IsOk(ret)) =>
        \A i, j \in 1..Len(Subtypes) :
            i # j => SubtypeName(Subtypes[i]) # SubtypeName(Subtypes[j])

----------------------------------------------------------------------------
(* Properties of the resolution of aliases (SpecResolve) *)

\* C2: a resolution follows aliases for a bounded number of hops and ends
\* in a return or a fatal error.  An acyclic chain has fewer aliases than
\* the arena has entries, so a resolution under such a bound is never more
\* hops along than the arena has entries, and never runs out of stack
C2_AliasHopsBounded == hops <= NumTypes /\ ret.st # "diverge"

----------------------------------------------------------------------------
(* Properties of the emission routines (SpecEmit) *)

\* the text a call has added to the buffer
Emitted == SubSeq(s, Len(arg.before) + 1, Len(s))

\* the names of a rendered list of Type name entries
EntryNames(text) ==
    LET es == SplitOn(text, <<",">>) IN [i \in 1..Len(es) |-> AfterLast(<<" ">>, es[i])]

NamesOf(list) == [i \in 1..Len(list) |-> list[i].name]

\* what a call has emitted after the documentation of the function
EmittedMember ==
    LET docs == add_docs(<<>>, arg.f.docs)
    IN  SubSeq(Emitted, Len(docs) + 1, Len(Emitted))

\* C3 as stated: after an abort on a dangling id or an unknown kind the
\* buffer holds no text of the aborted call
C3_AbortLeavesNoOutput ==
    (ret.st = "panic" /\ ret.why \in {"dangling", "unknown"}) => s = arg.before

\* the functions of the interface rendered before the one that aborted
MembersBeforeAbort ==
    LET fs == arg.interface.functions
        bad == CHOOSE n \in 1..Len(fs) :
                 /\ ~IsOk(add_function(<<>>, fs[n], "Method"))
                 /\ \A m \in 1..(n - 1) : IsOk(add_function(<<>>, fs[m], "Method"))
    IN  bad - 1

\* C3 amended: an abort of add_function leaves the buffer as it was; an
\* abort of add_interface leaves in it the text pushed up to the abort: the
\* documentation and the opened class, then the members rendered before the
\* failing function, and no closing brace
C3_AbortLeavesTextPushedSoFar ==
    (ret.st = "panic" /\ ret.why \in {"dangling", "unknown"}) =>
        /\ op = "add_function" => s = arg.before
        /\ op = "add_interface" =>
             LET opened == arg.before \o add_docs(<<>>, arg.interface.docs)
                             \o <<"c","l","a","s","s"," ">> \o arg.name \o <<" ","{">>
                 members == SubSeq(s, Len(opened) + 1, Len(s))
             IN  /\ IsPrefix(opened, s)
                 /\ Cardinality(Occurrences(<<")",";">>, members)) = MembersBeforeAbort
                 /\ ~Contains(<<"}">>, members)

C3_Witness ==
    /\ op = "add_interface" /\ ret.st = "panic" /\ ret.why = "dangling"
    /\ Len(arg.interface.functions) = 2
    /\ MembersBeforeAbort = 1
    /\ arg.before # <<>>

\* C9: in call mode add_function emits one lookup handle keyed on the name
\* of the function, then one method whose signature lists the parameters in
\* declaration order and whose body forwards the same names in the same
\* order to the handle and returns its result
C9_MethodCallForwardsParams ==
    (op = "add_function" /\ arg.kind = "MethodCall" /\ IsOk(ret)) =>
        LET f == arg.f
            handle == <<"l","a","t","e"," ","f","i","n","a","l"," ","_">> \o f.name \o <<" ","="," ","l","o","o","k","u","p","(","'">> \o f.name \o <<"'",")",";">>
            method == SubSeq(EmittedMember, Len(handle) + 1, Len(EmittedMember))
            signature == BeforeFirst(<<")"," ","{">>, AfterFirst(<<" ">> \o f.name \o <<"(">>, method))
            body == AfterFirst(<<")"," ","{">>, method)
            call == <<"r","e","t","u","r","n"," ","_">> \o f.name \o <<"(">>
            forwarded == SubSeq(body, Len(call) + 1, Len(body) - 3)
        IN  /\ IsPrefix(arg.before, s)
            /\ IsPrefix(handle, EmittedMember)
            /\ Cardinality(Occurrences(<<"l","o","o","k","u","p","(">>, Emitted)) = 1
            /\ Cardinality(Occurrences(<<"l","a","t","e"," ","f","i","n","a","l">>, Emitted)) = 1
            /\ EntryNames(signature) = NamesOf(f.params)
            /\ IsPrefix(call, body)
            /\ SubSeq(body, Len(body) - 2, Len(body)) = <<")",";","}">>
            /\ SplitOn(forwarded, <<","," ">>) = NamesOf(f.params)

C9_Witness ==
    /\ op = "add_function" /\ arg.kind = "MethodCall" /\ IsOk(ret)
    /\ Len(arg.f.params) = 2
    /\ arg.f.params[2].ty = Id(1)

\* the result type a call of add_function has rendered: what stands before
\* the name of the method, or between final and Function( of a field
RenderedResult ==
    CASE arg.kind = "Field" -> BeforeFirst(<<" ","F","u","n","c","t","i","o","n","(">>, AfterFirst(<<"f","i","n","a","l"," ">>, EmittedMember))
      [] arg.kind = "Method" -> BeforeFirst(<<" ">> \o arg.f.name \o <<"(">>, EmittedMember)
      [] arg.kind = "MethodCall" ->
           BeforeFirst(<<" ">> \o arg.f.name \o <<"(">>, AfterFirst(<<"'",")",";">>, EmittedMember))

\* C10: in every mode the result type add_function renders is not empty:
\* void for an empty result list, the idiomatic name of an anonymous result,
\* and the entries of a named list in declaration order
C10_ResultTypeNeverEmpty ==
    (op = "add_function" /\ IsOk(ret)) =>
        LET res == arg.f.results IN
        /\ RenderedResult # <<>>
        /\ (res.k = "Named" /\ res.list = <<>>) => RenderedResult = <<"v","o","i","d">>
        /\ res.k = "Anon" => RenderedResult = type_to_str(res.ty).v
        /\ (res.k = "Named" /\ res.list # <<>>) => EntryNames(RenderedResult) = NamesOf(res.list)

C10_Witness ==
    /\ op = "add_function" /\ IsOk(ret)
    /\ arg.kind = "Field"
    /\ arg.f.results = Named(<<>>)
    /\ Len(arg.f.params) = 1

\* the classes of an emitted text: each from its documentation to the last
\* character before its closing brace
ClassChunks(text) == SplitOn(text, <<"}">>)

\* what follows the class keyword of a chunk
AfterClass(chunk) == AfterFirst(<<"c","l","a","s","s"," ">>, chunk)
ClassName(chunk) == BeforeFirst(<<" ","{">>, AfterClass(chunk))
ClassBody(chunk) == AfterFirst(<<" ","{">>, AfterClass(chunk))

\* the members of a class body, each without its closing );
ClassMembers(chunk) == SplitOn(ClassBody(chunk), <<")",";">>)
MemberName(m) == AfterLast(<<" ">>, BeforeFirst(<<"(">>, m))
MemberParams(m) == EntryNames(AfterFirst(<<"(">>, m))

\* the interfaces a call hands to the emitter, each with the name its class
\* is to carry: the i-th identifier of a world reads IfaceA, IfaceB, ...
HandedInterfaces ==
    IF op = "add_interface" THEN <<[name |-> arg.name, interface |-> arg.interface]>>
    ELSE LET at == SelectSeq([i \in 1..Len(arg.map) |-> i],
                             LAMBDA i : arg.map[i].item.k = "Interface")
         IN  [j \in 1..Len(at) |->
                [name |-> <<"I","f","a","c","e">> \o <<Uppers[at[j]]>>,
                 interface |-> pkg.interfaces[arg.map[at[j]].item.id]]]

\* C11: a returned add_interface or add_interfaces call has appended one
\* class for every interface handed to it, in order and under the PascalCase
\* identifier, holding one member per function in the order of the
\* interface, each a bare signature without body or lookup handle; items of
\* a world that are not interfaces add nothing
C11_OneClassPerInterface ==
    (op \in {"add_interface", "add_interfaces"} /\ IsOk(ret)) =>
        LET handed == HandedInterfaces
            chunks == ClassChunks(Emitted)
        IN  /\ IsPrefix(arg.before, s)
            /\ Len(chunks) = Len(handed)
            /\ Cardinality(Occurrences(<<"c","l","a","s","s"," ">>, Emitted)) = Len(handed)
            /\ Cardinality(Occurrences(<<"}">>, Emitted)) = Len(handed)
            /\ handed # <<>> => Emitted[Len(Emitted)] = "}"
            /\ ~Contains(<<"l","o","o","k","u","p","(">>, Emitted)
            /\ ~Contains(<<"l","a","t","e"," ","f","i","n","a","l">>, Emitted)
            /\ ~Contains(<<"r","e","t","u","r","n"," ">>, Emitted)
            /\ \A i \in 1..Len(handed) :
                  LET fs == handed[i].interface.functions
                      ms == ClassMembers(chunks[i])
                  IN  /\ IsPrefix(add_docs(<<>>, handed[i].interface.docs) \o <<"c","l","a","s","s"," ">>, chunks[i])
                      /\ ClassName(chunks[i]) = handed[i].name
                      /\ ~Contains(<<"{">>, ClassBody(chunks[i]))
                      /\ Len(ms) = Len(fs)
                      /\ \A n \in 1..Len(fs) :
                            /\ MemberName(ms[n]) = fs[n].name
                            /\ MemberParams(ms[n]) = NamesOf(fs[n].params)

C11_Witness ==
    /\ op = "add_interfaces" /\ IsOk(ret)
    /\ Len(arg.map) = 2
    /\ arg.map[1].item = FunctionItem
    /\ arg.map[2].item = InterfaceItem(1)
    /\ arg.before # <<>>

----------------------------------------------------------------------------
(* Properties of sessions of emission calls (SpecSession) *)

\* C15: every call of add_function, add_interface and add_interfaces, after
\* whatever calls came before it, leaves the text the buffer held as a
\* prefix of what the buffer holds afterwards, and leaves the package as it
\* was
C15_EmissionOnlyAppends ==
    [][(Len(log') = Len(log) + 1) => (IsPrefix(s, s') /\ pkg' = pkg)]_vars

C15_Witness ==
    /\ Len(log) = 2
    /\ log[1].op = "add_function" /\ log[2].op = "add_interfaces"
    /\ log[2].arg.before # <<>>
    /\ IsOk(log[2].out)
    /\ Len(s) > Len(log[2].arg.before)

----------------------------------------------------------------------------
(* wasm_run native: WasiConfigNative::to_wasi_ctx (config.rs).  Arguments,  *)
(* names and paths are plain strings here: the code passes them on as they *)
(* are.                                                                    *)

\* the Err of an anyhow::Result
Err(why) == [st |-> "err", why |-> why, v |-> <<>>]

\* WasiCtxBuilder::new(): no argument, no variable, no preopened directory or
\* file, and standard streams that are not those of the host
NewWasiCtx ==
    [args |-> <<>>, env |-> <<>>, stdin |-> "empty", stdout |-> "sink", stderr |-> "sink",
     preopened_dirs |-> <<>>, preopened_files |-> <<>>]

\* WasiCtxBuilder::arg refuses a string it cannot store
ValidString(x) == x # "nul-inside"

\* the entries of preopened_dirs whose host path cannot be opened
Unopened(dirs, host) == {i \in 1..Len(dirs) : dirs[i].host_path \notin host.dirs}

to_wasi_ctx(self, host) ==
    LET inherited ==
            [NewWasiCtx EXCEPT
                !.args = IF self.inherit_args THEN host.args ELSE <<>>,
                !.env = IF self.inherit_env THEN host.env ELSE <<>>,
                !.stdin = IF self.inherit_stdin THEN "inherit" ELSE "empty",
                !.stdout = IF ~self.capture_stdout THEN "inherit" ELSE "sink",
                !.stderr = IF ~self.capture_stderr THEN "inherit" ELSE "sink"]
    IN  IF \E i \in 1..Len(self.args) : ~ValidString(self.args[i]) THEN Err("arg")
        ELSE IF \E i \in 1..Len(self.env) : ~ValidString(self.env[i].value) THEN Err("env")
        ELSE IF Unopened(self.preopened_dirs, host) # {} THEN Err("open_ambient_dir")
        ELSE Ok([inherited EXCEPT
                    !.args = @ \o self.args,
                    !.env = @ \o self.env,
                    !.preopened_dirs =
                        [i \in 1..Len(self.preopened_dirs) |->
                            [dir |-> self.preopened_dirs[i].host_path,
                             guest_path |-> self.preopened_dirs[i].wasm_guest_path]]])

\* the host process
Hosts ==
    {[args |-> <<"wasm_run", "--verbose">>,
      env |-> <<[name |-> "PATH", value |-> "/bin"]>>,
      dirs |-> {"/srv/data"}]}

ArgValues == {"serve", "nul-inside"}
EnvVariables == {[name |-> "HOME", value |-> "/"]}
FileNames == {"in.txt", "out.txt"}
PreopenedDirs ==
    {[wasm_guest_path |-> "/data", host_path |-> "/srv/data"],
     [wasm_guest_path |-> "/cache", host_path |-> "/missing"]}

\* every setting of the five flags with lists of at most one entry, and
\* every list with the flags cleared
WasiConfigs ==
    {[capture_stdout |-> f[1], capture_stderr |-> f[2], inherit_stdin |-> f[3],
      inherit_env |-> f[4], inherit_args |-> f[5],
      args |-> IF l[1] THEN <<"serve">> ELSE <<>>,
      env |-> IF l[2] THEN <<[name |-> "HOME", value |-> "/"]>> ELSE <<>>,
      preopened_files |-> IF l[3] THEN <<"in.txt">> ELSE <<>>,
      preopened_dirs |-> IF l[4] THEN <<[wasm_guest_path |-> "/data", host_path |-> "/srv/data"]>>
                         ELSE <<>>]
        : f \in [1..5 -> BOOLEAN], l \in [1..4 -> BOOLEAN]}
    \cup
    {[capture_stdout |-> FALSE, capture_stderr |-> FALSE, inherit_stdin |-> FALSE,
      inherit_env |-> FALSE, inherit_args |-> FALSE,
      args |-> a, env |-> e, preopened_files |-> fl, preopened_dirs |-> d]
        : a \in Seqs(ArgValues, MaxLen), e \in Seqs(EnvVariables, MaxLen),
          fl \in Seqs(FileNames, MaxLen), d \in Seqs(PreopenedDirs, MaxLen)}

----------------------------------------------------------------------------
(* wasm_run native: WasmFeatures and ModuleConfig::wasm_features.  A build  *)
(* is the setting of the cargo features wasmtime and wasi.                 *)

Builds == [wasmtime : BOOLEAN, wasi : BOOLEAN]

WasmWasiFeatures_default ==
    [io |-> TRUE, filesystem |-> TRUE, clocks |-> TRUE, random |-> TRUE, poll |-> TRUE,
     machine_learning |-> FALSE, crypto |-> FALSE, threads |-> FALSE]

WasmWasiFeatures_supported == WasmWasiFeatures_default

WasmFeatures_default(build) ==
    IF build.wasmtime
      THEN [multi_value |-> TRUE, bulk_memory |-> TRUE, reference_types |-> TRUE,
            mutable_global |-> TRUE, saturating_float_to_int |-> TRUE, sign_extension |-> TRUE,
            extended_const |-> TRUE, floats |-> TRUE, simd |-> TRUE, relaxed_simd |-> FALSE,
            threads |-> FALSE, multi_memory |-> FALSE, memory64 |-> FALSE,
            component_model |-> FALSE, garbage_collection |-> FALSE, tail_call |-> FALSE,
            exceptions |-> FALSE, memory_control |-> FALSE, type_reflection |-> TRUE,
            wasi_features |-> IF build.wasi THEN Some(WasmWasiFeatures_default) ELSE None]
      ELSE [multi_value |-> TRUE, bulk_memory |-> TRUE, reference_types |-> TRUE,
            mutable_global |-> TRUE, saturating_float_to_int |-> TRUE, sign_extension |-> TRUE,
            tail_call |-> FALSE, extended_const |-> FALSE, floats |-> TRUE,
            component_model |-> FALSE, garbage_collection |-> FALSE, simd |-> FALSE,
            relaxed_simd |-> FALSE, threads |-> FALSE, multi_memory |-> FALSE,
            exceptions |-> FALSE, memory64 |-> FALSE, memory_control |-> FALSE,
            type_reflection |-> TRUE,
            wasi_features |-> IF build.wasi THEN Some(WasmWasiFeatures_default) ELSE None]

\* WasmFeatures::supported returning the default set
WasmFeatures_supported_as_default(build) == WasmFeatures_default(build)

WasmFeatures_supported(build) ==
    IF build.wasmtime
      THEN [multi_value |-> TRUE, bulk_memory |-> TRUE, reference_types |-> TRUE,
            mutable_global |-> TRUE, saturating_float_to_int |-> TRUE, sign_extension |-> TRUE,
            extended_const |-> TRUE, floats |-> TRUE, simd |-> TRUE, relaxed_simd |-> TRUE,
            threads |-> TRUE, multi_memory |-> TRUE, memory64 |-> TRUE,
            component_model |-> FALSE, garbage_collection |-> FALSE, exceptions |-> FALSE,
            tail_call |-> FALSE, memory_control |-> FALSE, type_reflection |-> TRUE,
            wasi_features |-> IF build.wasi THEN Some(WasmWasiFeatures_supported) ELSE None]
      ELSE [multi_value |-> TRUE, bulk_memory |-> TRUE, reference_types |-> TRUE,
            mutable_global |-> TRUE, saturating_float_to_int |-> TRUE, sign_extension |-> TRUE,
            tail_call |-> TRUE, extended_const |-> TRUE, floats |-> TRUE,
            component_model |-> FALSE, garbage_collection |-> FALSE, simd |-> FALSE,
            relaxed_simd |-> FALSE, threads |-> FALSE, multi_memory |-> FALSE,
            exceptions |-> FALSE, memory64 |-> FALSE, memory_control |-> FALSE,
            type_reflection |-> TRUE,
            wasi_features |-> IF build.wasi THEN Some(WasmWasiFeatures_supported) ELSE None]

\* Option::unwrap_or
UnwrapOr(o, d) == IF IsSome(o) THEN Unwrap(o) ELSE d

\* w.and_then(|w| w.field)
AndThen(w, field) == IF IsSome(w) THEN Unwrap(w)[field] ELSE None

ModuleConfig_wasm_features(self, build) ==
    LET def == WasmFeatures_default(build) IN
    IF build.wasmtime
      THEN LET w == self.wasmtime IN
           [multi_value |-> UnwrapOr(self.multi_value, def.multi_value),
            bulk_memory |-> UnwrapOr(self.bulk_memory, def.bulk_memory),
            reference_types |-> UnwrapOr(self.reference_types, def.reference_types),
            mutable_global |-> TRUE, saturating_float_to_int |-> TRUE, sign_extension |-> TRUE,
            extended_const |-> TRUE, floats |-> TRUE,
            simd |-> UnwrapOr(AndThen(w, "wasm_simd"), def.simd),
            threads |-> UnwrapOr(AndThen(w, "wasm_threads"), def.threads),
            multi_memory |-> UnwrapOr(AndThen(w, "wasm_multi_memory"), def.multi_memory),
            memory64 |-> UnwrapOr(AndThen(w, "wasm_memory64"), def.memory64),
            relaxed_simd |-> UnwrapOr(AndThen(w, "wasm_relaxed_simd"), def.relaxed_simd),
            component_model |-> FALSE, garbage_collection |-> FALSE, tail_call |-> FALSE,
            exceptions |-> FALSE, memory_control |-> FALSE, type_reflection |-> TRUE,
            wasi_features |-> IF build.wasi THEN Some(WasmWasiFeatures_default) ELSE None]
      ELSE LET w == self.wasmi IN
           [multi_value |-> UnwrapOr(self.multi_value, def.multi_value),
            bulk_memory |-> UnwrapOr(self.bulk_memory, def.bulk_memory),
            reference_types |-> UnwrapOr(self.reference_types, def.reference_types),
            mutable_global |-> UnwrapOr(AndThen(w, "mutable_global"), def.mutable_global),
            saturating_float_to_int |->
                UnwrapOr(AndThen(w, "saturating_float_to_int"), def.saturating_float_to_int),
            sign_extension |-> UnwrapOr(AndThen(w, "sign_extension"), def.sign_extension),
            tail_call |-> UnwrapOr(AndThen(w, "tail_call"), def.tail_call),
            extended_const |-> UnwrapOr(AndThen(w, "extended_const"), def.extended_const),
            floats |-> UnwrapOr(AndThen(w, "floats"), def.floats),
            garbage_collection |-> FALSE, component_model |-> FALSE, simd |-> FALSE,
            relaxed_simd |-> FALSE, threads |-> FALSE, multi_memory |-> FALSE,
            exceptions |-> FALSE, memory64 |-> FALSE, memory_control |-> FALSE,
            type_reflection |-> TRUE,
            wasi_features |-> IF build.wasi THEN Some(WasmWasiFeatures_default) ELSE None]

\* Option<bool>
OptBool == {None, Some(TRUE), Some(FALSE)}

\* ModuleConfigWasmi and ModuleConfigWasmtime, by the options wasm_features
\* reads
WasmiConfigs ==
    [mutable_global : OptBool, sign_extension : OptBool, saturating_float_to_int : OptBool,
     tail_call : OptBool, extended_const : OptBool, floats : OptBool]

WasmtimeConfigs ==
    [wasm_threads : OptBool, wasm_simd : OptBool, wasm_relaxed_simd : OptBool,
     wasm_multi_memory : OptBool, wasm_memory64 : OptBool]

AllSetWasmi == [mutable_global |-> Some(TRUE), sign_extension |-> Some(TRUE),
                saturating_float_to_int |-> Some(TRUE), tail_call |-> Some(TRUE),
                extended_const |-> Some(TRUE), floats |-> Some(TRUE)]

AllSetWasmtime == [wasm_threads |-> Some(TRUE), wasm_simd |-> Some(TRUE),
                   wasm_relaxed_simd |-> Some(TRUE), wasm_multi_memory |-> Some(TRUE),
                   wasm_memory64 |-> Some(TRUE)]

\* the configurations of a build: every setting of the common options and
\* of the options of its own runtime, the options of the other runtime
\* absent or all set
ModuleConfigs(build) ==
    [multi_value : OptBool, bulk_memory : OptBool, reference_types : OptBool,
     consume_fuel : {None},
     wasmi : IF build.wasmtime THEN {None, Some(AllSetWasmi)}
             ELSE {None} \cup {Some(w) : w \in WasmiConfigs},
     wasmtime : IF build.wasmtime THEN {None} \cup {Some(w) : w \in WasmtimeConfigs}
                ELSE {None, Some(AllSetWasmtime)}]

----------------------------------------------------------------------------
(* Calls into the native configuration *)

\* one call: it returns its value, an Err included
NativeCall(o, a, r) ==
    /\ phase = "idle"
    /\ op' = o /\ arg' = a /\ ret' = r
    /\ phase' = "returned"
    /\ UNCHANGED <<pkg, s, cur, hops, log>>

\* to_wasi_ctx exists in the builds with the wasi feature
ToWasiCtx ==
    /\ phase = "idle"
    /\ \E build \in {b \in Builds : b.wasi}, self \in WasiConfigs, host \in Hosts :
          NativeCall("to_wasi_ctx", [self |-> self, host |-> host, build |-> build],
                     to_wasi_ctx(self, host))

FeaturesDefault ==
    /\ phase = "idle"
    /\ \E build \in Builds :
          NativeCall("WasmFeatures::default", [build |-> build], Ok(WasmFeatures_default(build)))

FeaturesSupported ==
    /\ phase = "idle"
    /\ \E build \in Builds :
          NativeCall("WasmFeatures::supported", [build |-> build],
                     Ok(WasmFeatures_supported(build)))

WasmFeaturesOfConfig ==
    /\ phase = "idle"
    /\ \E build \in Builds :
          \E self \in ModuleConfigs(build) :
              NativeCall("wasm_features", [self |-> self, build |-> build],
                         Ok(ModuleConfig_wasm_features(self, build)))

InitNative ==
    /\ pkg = [types |-> <<>>, interfaces |-> <<>>]
    /\ s = <<>>
    /\ op = "none" /\ arg = None /\ ret = NoCall
    /\ cur = None /\ hops = 0
    /\ phase = "idle"
    /\ log = <<>>

NextNative == ToWasiCtx \/ FeaturesDefault \/ FeaturesSupported \/ WasmFeaturesOfConfig

SpecNative == InitNative /\ [][NextNative]_vars

----------------------------------------------------------------------------
(* Properties of the native configuration (SpecNative) *)

\* C17: the context to_wasi_ctx returns holds every entry of args, env,
\* preopened_dirs and preopened_files of the configuration, in order
C17_PreopenedFilesReachContext ==
    (op = "to_wasi_ctx" /\ IsOk(ret)) =>
        LET self == arg.self
            ctx == ret.v
        IN  /\ \A i \in 1..Len(self.args) : \E j \in 1..Len(ctx.args) : ctx.args[j] = self.args[i]
            /\ \A i \in 1..Len(self.env) : \E j \in 1..Len(ctx.env) : ctx.env[j] = self.env[i]
            /\ \A i \in 1..Len(self.preopened_dirs) :
                  \E j \in 1..Len(ctx.preopened_dirs) :
                      /\ ctx.preopened_dirs[j].dir = self.preopened_dirs[i].host_path
                      /\ ctx.preopened_dirs[j].guest_path = self.preopened_dirs[i].wasm_guest_path
            /\ \A i \in 1..Len(self.preopened_files) :
                  \E j \in 1..Len(ctx.preopened_files) :
                      ctx.preopened_files[j] = self.preopened_files[i]

FeatureNames ==
    {"multi_value", "bulk_memory", "reference_types", "mutable_global",
     "saturating_float_to_int", "sign_extension", "extended_const", "floats", "simd",
     "relaxed_simd", "threads", "multi_memory", "memory64", "component_model",
     "garbage_collection", "tail_call", "exceptions", "memory_control", "type_reflection"}

WasiFeatureNames ==
    {"io", "filesystem", "clocks", "random", "poll", "machine_learning", "crypto", "threads"}

\* every feature enabled in the set a is enabled in the set b
EnabledWithin(a, b) ==
    /\ \A f \in FeatureNames : a[f] => b[f]
    /\ IsSome(a.wasi_features) =>
          /\ IsSome(b.wasi_features)
          /\ \A f \in WasiFeatureNames : Unwrap(a.wasi_features)[f] => Unwrap(b.wasi_features)[f]

\* C19: in each build, every feature that wasm_features reports as enabled
\* for a configuration, and every feature enabled by default, is enabled in
\* the supported set of that build
C19_EnabledFeaturesAreSupported ==
    (op \in {"wasm_features", "WasmFeatures::default"}) =>
        EnabledWithin(ret.v, WasmFeatures_supported(arg.build))

C19_Witness ==
    /\ op = "wasm_features"
    /\ ~arg.build.wasmtime /\ arg.build.wasi
    /\ arg.self.multi_value = Some(FALSE)
    /\ IsSome(arg.self.wasmi)
    /\ Unwrap(arg.self.wasmi).tail_call = Some(TRUE)
    /\ Unwrap(arg.self.wasmi).extended_const = Some(TRUE)
    /\ ret.v.tail_call /\ ret.v.extended_const /\ ~ret.v.multi_value

====
